---------------------------- MODULE Spec2Model ----------------------------
(***************************************************************************)
(* Resource scheduling engine: entities (TimeSlot, Employee, Project,      *)
(* Assignment, Schedule) of core/models.py and the greedy scheduler and    *)
(* conflict detector of core/scheduler.py.                                 *)
(*                                                                         *)
(* Time is counted in ticks of 1/TicksPerHour hour (datetimes and float    *)
(* hours of the source); a calendar date is a block of 24 hours.           *)
(***************************************************************************)
EXTENDS Integers, Sequences, FiniteSets

VARIABLES
    employees,              \* Schedule.employees: id -> [skills, unavailable_slots]
    projects,               \* Schedule.projects: id -> [time_slot, required_skills, priority]
    options,                \* GreedyScheduler's balance_workload, minimize_overtime
    assignments,            \* Employee.assignments: id -> Seq of [project, time_slot]
    regular_hours_worked,   \* Employee.regular_hours_worked, in ticks
    overtime_hours_worked,  \* Employee.overtime_hours_worked, in ticks
    assigned_employees,     \* Project.assigned_employees: id -> Seq of employee ids
    status,                 \* Project.status
    seed,                   \* DataGenerator.seed
    rng,                    \* state of the process-wide generator of module random
    pc,                     \* position of the running schedule() call
    sorted_projects,        \* local of GreedyScheduler.schedule
    pi,                     \* index of the for loop over sorted_projects
    missing_skills,         \* local of _schedule_project
    si,                     \* index of the for loop over missing_skills
    results,                \* the results dict of GreedyScheduler.schedule
    mode,                   \* how the Schedule of the current run came about
    first,                  \* what the first finished run returned and left behind
    strategy,               \* the strategy argument of schedule_projects
    kwargs,                 \* the names of the keyword arguments passed with it
    iteration,              \* index of the for loop of OptimizedScheduler.schedule
    ret,                    \* what the last call of a read-only operation returned
    calls                   \* the calls in progress: arguments and position of each

vars == <<employees, projects, options, assignments, regular_hours_worked,
          overtime_hours_worked, assigned_employees, status, seed, rng, pc,
          sorted_projects, pi, missing_skills, si, results, mode, first,
          strategy, kwargs, iteration, ret, calls>>

entityVars == <<assignments, regular_hours_worked, overtime_hours_worked,
                assigned_employees, status>>
inputVars == <<employees, projects, options, seed>>
loopVars == <<sorted_projects, pi, missing_skills, si>>
callVars == <<strategy, kwargs, iteration, ret, calls>>

-----------------------------------------------------------------------------
(* Bounds of the model *)
NumEmps == 5
NumProjs == 2
\* The max_iterations an OptimizedScheduler is built with.
MaxIterations == 3
\* The longest assignment list of an employee built with assignments.
MaxAssignments == 3
\* The latest time, in ticks, of the slots overlaps_with is called on.
MaxTime == 5
\* The longest required_skills list a Project is constructed with.
MaxSkillList == 6

(* Program constants *)
NumSkills == 5
TeamSize == 5
MAX_REGULAR_HOURS_PER_DAY == 8
TicksPerHour == 2
HoursPerDay == 24
NoiseRes == 8
IterationCap == 50

Skills == 1..NumSkills
EmpIds == DOMAIN employees
ProjIds == DOMAIN projects

Min(a, b) == IF a <= b THEN a ELSE b
Max(a, b) == IF a >= b THEN a ELSE b

RECURSIVE SumSeq(_)
SumSeq(s) == IF s = <<>> THEN 0 ELSE Head(s) + SumSeq(Tail(s))

RECURSIVE SumOver(_, _)
SumOver(S, f) ==
    IF S = {} THEN 0
    ELSE LET x == CHOOSE y \in S : TRUE IN f[x] + SumOver(S \ {x}, f)

Range(s) == {s[i] : i \in 1..Len(s)}

-----------------------------------------------------------------------------
(* TimeSlot *)
Slot(s, e) == [start |-> s, end |-> e]
H(h) == h * TicksPerHour

ValidSlot(ts) == ~(ts.end <= ts.start)

duration_hours(ts) == ts.end - ts.start

\* overlaps_with with the bounds compared inclusively.
overlaps_with_closed(a, b) == ~(a.end < b.start \/ a.start > b.end)

overlaps_with(a, b) == ~(a.end <= b.start \/ a.start >= b.end)

Date(t) == t \div (HoursPerDay * TicksPerHour)


-----------------------------------------------------------------------------
(* Employee *)
has_skill(e, skill) == skill \in employees[e].skills

\* is_available without the loop over the employee's own assignments.
is_available_unavailable_only(e, time_slot) ==
    \A u \in employees[e].unavailable_slots : ~overlaps_with(time_slot, u)

is_available(e, time_slot) ==
    /\ \A u \in employees[e].unavailable_slots : ~overlaps_with(time_slot, u)
    /\ \A i \in 1..Len(assignments[e]) :
           ~overlaps_with(time_slot, assignments[e][i].time_slot)

\* Sum of the durations of the assignments of list asgs that start on date d.
DailyHours(asgs, d) ==
    SumSeq([i \in 1..Len(asgs) |->
               IF Date(asgs[i].time_slot.start) = d
               THEN duration_hours(asgs[i].time_slot) ELSE 0])

\* The hours the commit is measured against: _update_hours runs after
\* add_assignment appended the assignment, so asgs already holds it.
UpdateHoursDaily(asgs, time_slot) == DailyHours(asgs, Date(time_slot.start))

\* _update_hours with the overtime taken from the day's total.
UpdateHoursOvertimeOfDay(asgs, time_slot) ==
    LET hours == duration_hours(time_slot)
        daily_hours == DailyHours(asgs, Date(time_slot.start))
        cap == H(MAX_REGULAR_HOURS_PER_DAY)
    IN  [regular |-> Min(hours, Max(0, cap - daily_hours)),
         overtime |-> Max(0, daily_hours - cap)]

\* Employee._update_hours: the [regular, overtime] added for time_slot, asgs
\* being self.assignments at the time of the call.
UpdateHours(asgs, time_slot) ==
    LET hours == duration_hours(time_slot)
        daily_hours == UpdateHoursDaily(asgs, time_slot)
        cap == H(MAX_REGULAR_HOURS_PER_DAY)
    IN  IF daily_hours <= cap
        THEN LET regular == Min(hours, cap - daily_hours)
             IN  [regular |-> regular, overtime |-> Max(0, hours - regular)]
        ELSE [regular |-> 0, overtime |-> hours]

-----------------------------------------------------------------------------
(* Project *)
is_fully_staffed(p) == Len(assigned_employees[p]) = TeamSize

SkillCovered(p, skill) ==
    \E i \in 1..Len(assigned_employees[p]) : has_skill(assigned_employees[p][i], skill)

get_missing_skills(p) ==
    LET Missing(skill) == ~SkillCovered(p, skill)
    IN  SelectSeq(projects[p].required_skills, Missing)

\* can_assign_employee without the check of the missing skills.
can_assign_employee_any_skill(p, e) ==
    /\ e \notin Range(assigned_employees[p])
    /\ ~is_fully_staffed(p)
    /\ is_available(e, projects[p].time_slot)

can_assign_employee(p, e) ==
    /\ e \notin Range(assigned_employees[p])
    /\ ~is_fully_staffed(p)
    /\ \E skill \in Range(get_missing_skills(p)) : has_skill(e, skill)
    /\ is_available(e, projects[p].time_slot)

\* AssignEmployee with the status set one assignee early.
AssignEmployeeStatusEarly(p, e) ==
    LET assignment == [project |-> p, time_slot |-> projects[p].time_slot]
        asgs == Append(assignments[e], assignment)
        delta == UpdateHours(asgs, assignment.time_slot)
        team == Append(assigned_employees[p], e)
    IN  /\ assigned_employees' = [assigned_employees EXCEPT ![p] = team]
        /\ assignments' = [assignments EXCEPT ![e] = asgs]
        /\ regular_hours_worked' =
               [regular_hours_worked EXCEPT ![e] = @ + delta.regular]
        /\ overtime_hours_worked' =
               [overtime_hours_worked EXCEPT ![e] = @ + delta.overtime]
        /\ status' = [status EXCEPT
                         ![p] = IF Len(team) >= TeamSize - 1 THEN "Scheduled" ELSE @]

\* AssignEmployee without the call of add_assignment.
AssignEmployeeProjectOnly(p, e) ==
    LET team == Append(assigned_employees[p], e)
    IN  /\ assigned_employees' = [assigned_employees EXCEPT ![p] = team]
        /\ status' = [status EXCEPT
                         ![p] = IF Len(team) = TeamSize THEN "Scheduled" ELSE @]
        /\ UNCHANGED <<assignments, regular_hours_worked, overtime_hours_worked>>

\* Project.assign_employee, the path that does not raise: the project's list
\* grows, the Assignment is appended to the employee, the hours are updated,
\* and the status follows the head count.
AssignEmployee(p, e) ==
    LET assignment == [project |-> p, time_slot |-> projects[p].time_slot]
        asgs == Append(assignments[e], assignment)
        delta == UpdateHours(asgs, assignment.time_slot)
        team == Append(assigned_employees[p], e)
    IN  /\ assigned_employees' = [assigned_employees EXCEPT ![p] = team]
        /\ assignments' = [assignments EXCEPT ![e] = asgs]
        /\ regular_hours_worked' =
               [regular_hours_worked EXCEPT ![e] = @ + delta.regular]
        /\ overtime_hours_worked' =
               [overtime_hours_worked EXCEPT ![e] = @ + delta.overtime]
        /\ status' = [status EXCEPT
                         ![p] = IF Len(team) = TeamSize THEN "Scheduled" ELSE @]

-----------------------------------------------------------------------------
(* Schedule *)
get_available_employees(time_slot, skill) ==
    LET Fits(e) == has_skill(e, skill) /\ is_available(e, time_slot)
    IN  SelectSeq([e \in 1..Len(employees) |-> e], Fits)

\* Employee.get_total_cost, times 10: regular hours at 1.0, overtime at 1.3.
employee_total_cost10(e) ==
    regular_hours_worked[e] * 10 + overtime_hours_worked[e] * 13

\* Assignment.get_cost, times 10, of the i-th assignment of employee e: the
\* hours of the employee's other assignments of the same date are taken as
\* worked before it.
get_cost10(e, i) ==
    LET self == assignments[e][i]
        hours == duration_hours(self.time_slot)
        assignment_date == Date(self.time_slot.start)
        daily_hours ==
            SumSeq([j \in 1..Len(assignments[e]) |->
                       IF /\ Date(assignments[e][j].time_slot.start) = assignment_date
                          /\ j # i
                       THEN duration_hours(assignments[e][j].time_slot) ELSE 0])
        cap == H(MAX_REGULAR_HOURS_PER_DAY)
        regular == IF daily_hours < cap THEN Min(hours, cap - daily_hours) ELSE 0
        overtime == IF daily_hours < cap THEN Max(0, hours - regular) ELSE hours
    IN  regular * 10 + overtime * 13

get_total_cost10 ==
    SumOver(EmpIds, [e \in EmpIds |->
        regular_hours_worked[e] * 10 + overtime_hours_worked[e] * 13])


-----------------------------------------------------------------------------
(* The generator of module random: one state for the whole process.        *)
(* random.seed(s) sets it, random.random() advances it and returns the     *)
(* new state as a number n/NoiseRes of [0, 1).                             *)
RandomSeed(s) == s % NoiseRes
RandomNext(x) == (x * 5 + 3) % NoiseRes

RECURSIVE Draws(_, _)
\* The n successive states random.random() goes through from state x.
Draws(x, n) ==
    IF n = 0 THEN <<>>
    ELSE <<RandomNext(x)>> \o Draws(RandomNext(x), n - 1)

-----------------------------------------------------------------------------
(* GreedyScheduler *)
\* The weighted part of _calculate_employee_score, in ticks.
WeightedScore(e, p) ==
    (IF options.balance_workload
     THEN H(1000) - (regular_hours_worked[e] + overtime_hours_worked[e])
     ELSE 0)
    +
    (IF options.minimize_overtime
     THEN 100 * Max(0, H(MAX_REGULAR_HOURS_PER_DAY)
                        - DailyHours(assignments[e], Date(projects[p].time_slot.start)))
     ELSE 0)

\* _calculate_employee_score with the draw n/NoiseRes, scaled by
\* TicksPerHour * NoiseRes to stay in the integers.
CalculateEmployeeScore(e, p, n) == WeightedScore(e, p) * NoiseRes + n * TicksPerHour

\* _select_best_employee: a single candidate is returned without a draw; else
\* one draw per candidate in list order, and the first of the highest scores
\* (list.sort is stable, also with reverse=True).
SelectBestEmployee(candidates, p, x) ==
    IF Len(candidates) = 1
    THEN [employee |-> candidates[1], rng |-> x]
    ELSE
        LET noise == Draws(x, Len(candidates))
            score == [i \in 1..Len(candidates) |->
                         CalculateEmployeeScore(candidates[i], p, noise[i])]
            best == CHOOSE i \in 1..Len(candidates) :
                        /\ \A j \in 1..Len(candidates) : score[j] <= score[i]
                        /\ \A j \in 1..(i - 1) : score[j] < score[i]
        IN  [employee |-> candidates[best], rng |-> noise[Len(candidates)]]

\* The key of sorted(): (-priority, start), ties in list order.
SortsBefore(p, q) ==
    \/ projects[p].priority > projects[q].priority
    \/ /\ projects[p].priority = projects[q].priority
       /\ projects[p].time_slot.start < projects[q].time_slot.start
    \/ /\ projects[p].priority = projects[q].priority
       /\ projects[p].time_slot.start = projects[q].time_slot.start
       /\ p < q

SortedProjects ==
    [i \in 1..Len(projects) |->
        CHOOSE p \in ProjIds : Cardinality({q \in ProjIds : SortsBefore(q, p)}) = i - 1]

\* _calculate_statistics, the fields that are folds of hours and head counts.
CalculateStatistics ==
    [total_employees |-> Len(employees),
     total_projects |-> Len(projects),
     fully_staffed_projects |-> Cardinality({p \in ProjIds : is_fully_staffed(p)}),
     total_cost10 |-> get_total_cost10,
     total_regular_hours |-> SumOver(EmpIds, regular_hours_worked),
     total_overtime_hours |-> SumOver(EmpIds, overtime_hours_worked),
     employees_with_overtime |->
         Cardinality({e \in EmpIds : overtime_hours_worked[e] > 0})]

NoResults ==
    [success |-> TRUE, scheduled_projects |-> 0, failed_projects |-> <<>>,
     statistics |-> <<>>]

FailedEntry(p) == [id |-> p, missing_skills |-> get_missing_skills(p)]

CurrentProject == sorted_projects[pi]

\* SchedulerFactory.create_scheduler passes **kwargs to the constructor of the
\* strategy's class: the keyword names each __init__ takes.
GreedyParameters == {"balance_workload", "minimize_overtime"}
OptimizedParameters == {"max_iterations", "temperature"}

\* The constructor call of create_scheduler does not raise TypeError.
create_scheduler(str, kw) ==
    \/ str = "greedy" /\ kw \subseteq GreedyParameters
    \/ str = "optimized" /\ kw \subseteq OptimizedParameters

\* schedule_projects: create_scheduler raises, no scheduler runs.
CreateSchedulerRaises ==
    /\ pc = "idle"
    /\ ~create_scheduler(strategy, kwargs)
    /\ pc' = "raised"
    /\ UNCHANGED <<inputVars, entityVars, rng, loopVars, results, mode, first,
                   callVars>>

\* schedule(), lines 25-36: a new results dict and the sorted project list.
StartRun ==
    /\ pc = "idle"
    /\ create_scheduler(strategy, kwargs)
    /\ results' = NoResults
    /\ sorted_projects' = SortedProjects
    /\ pi' = 1
    /\ missing_skills' = <<>>
    /\ si' = 1
    /\ pc' = "project"
    /\ UNCHANGED <<inputVars, entityVars, rng, mode, first, callVars>>

\* schedule(), lines 38-41: a project that is already fully staffed is counted.
SkipStaffed ==
    /\ pc = "project"
    /\ pi <= Len(sorted_projects)
    /\ is_fully_staffed(CurrentProject)
    /\ results' = [results EXCEPT !.scheduled_projects = @ + 1]
    /\ pi' = pi + 1
    /\ UNCHANGED <<inputVars, entityVars, rng, pc, sorted_projects,
                   missing_skills, si, mode, first, callVars>>

\* schedule() line 43 and _schedule_project line 65: the missing skills are
\* computed once, on entry.
BeginProject ==
    /\ pc = "project"
    /\ pi <= Len(sorted_projects)
    /\ ~is_fully_staffed(CurrentProject)
    /\ missing_skills' = get_missing_skills(CurrentProject)
    /\ si' = 1
    /\ pc' = "skill"
    /\ UNCHANGED <<inputVars, entityVars, rng, sorted_projects, pi, results,
                   mode, first, callVars>>

Available == get_available_employees(projects[CurrentProject].time_slot,
                                     missing_skills[si])

\* The project without a candidate ends the run.
NoCandidatesAborts ==
    /\ pc = "skill"
    /\ si <= Len(missing_skills)
    /\ Available = <<>>
    /\ results' = [results EXCEPT
                      !.failed_projects = Append(@, FailedEntry(CurrentProject)),
                      !.success = FALSE]
    /\ pc' = "done"
    /\ UNCHANGED <<inputVars, entityVars, rng, sorted_projects, pi,
                   missing_skills, si, mode, first, callVars>>

\* The project without a candidate is left without a record.
NoCandidatesDropped ==
    /\ pc = "skill"
    /\ si <= Len(missing_skills)
    /\ Available = <<>>
    /\ pi' = pi + 1
    /\ pc' = "project"
    /\ UNCHANGED <<inputVars, entityVars, rng, sorted_projects,
                   missing_skills, si, results, mode, first, callVars>>

\* _schedule_project lines 68-71 with schedule() lines 47-52: no candidate for
\* the skill, return False; the caller records the project as failed.
NoCandidates ==
    /\ pc = "skill"
    /\ si <= Len(missing_skills)
    /\ Available = <<>>
    /\ results' = [results EXCEPT
                      !.failed_projects = Append(@, FailedEntry(CurrentProject))]
    /\ pi' = pi + 1
    /\ pc' = "project"
    /\ UNCHANGED <<inputVars, entityVars, rng, sorted_projects,
                   missing_skills, si, mode, first, callVars>>

\* _schedule_project lines 73-76: the best candidate is committed.
Commit ==
    /\ pc = "skill"
    /\ si <= Len(missing_skills)
    /\ Available # <<>>
    /\ LET best == SelectBestEmployee(Available, CurrentProject, rng)
       IN  /\ can_assign_employee(CurrentProject, best.employee)
           /\ AssignEmployee(CurrentProject, best.employee)
           /\ rng' = best.rng
    /\ si' = si + 1
    /\ UNCHANGED <<inputVars, pc, sorted_projects, pi, missing_skills,
                   results, mode, first, callVars>>

\* The skill whose candidate was refused is tried again.
RejectedRetries ==
    /\ pc = "skill"
    /\ si <= Len(missing_skills)
    /\ Available # <<>>
    /\ LET best == SelectBestEmployee(Available, CurrentProject, rng)
       IN  /\ ~can_assign_employee(CurrentProject, best.employee)
           /\ rng' = best.rng
    /\ UNCHANGED <<inputVars, entityVars, pc, sorted_projects, pi, si,
                   missing_skills, results, mode, first, callVars>>

\* _schedule_project lines 75-78: assign_employee raised ValueError, the loop
\* goes on with the next skill.
Rejected ==
    /\ pc = "skill"
    /\ si <= Len(missing_skills)
    /\ Available # <<>>
    /\ LET best == SelectBestEmployee(Available, CurrentProject, rng)
       IN  /\ ~can_assign_employee(CurrentProject, best.employee)
           /\ rng' = best.rng
    /\ si' = si + 1
    /\ UNCHANGED <<inputVars, entityVars, pc, sorted_projects, pi,
                   missing_skills, results, mode, first, callVars>>

\* _schedule_project line 80 with schedule() lines 45-52: the loop over the
\* skills is over, the project succeeded iff it is fully staffed.
EndProject ==
    /\ pc = "skill"
    /\ si > Len(missing_skills)
    /\ results' =
           IF is_fully_staffed(CurrentProject)
           THEN [results EXCEPT !.scheduled_projects = @ + 1]
           ELSE [results EXCEPT
                    !.failed_projects = Append(@, FailedEntry(CurrentProject))]
    /\ pi' = pi + 1
    /\ pc' = "project"
    /\ UNCHANGED <<inputVars, entityVars, rng, sorted_projects,
                   missing_skills, si, mode, first, callVars>>

\* What a finished run returned and the Schedule it left behind.
Outcome(res) ==
    [results |-> res, assignments |-> assignments,
     assigned_employees |-> assigned_employees, status |-> status,
     regular_hours_worked |-> regular_hours_worked,
     overtime_hours_worked |-> overtime_hours_worked]

\* schedule(), lines 54-62: statistics, success flag, return.
FinishRun ==
    /\ pc = "project"
    /\ pi > Len(sorted_projects)
    /\ LET res == [results EXCEPT
                      !.statistics = CalculateStatistics,
                      !.success = (results.failed_projects = <<>>)]
       IN  /\ results' = res
           /\ first' = IF mode = "initial" THEN Outcome(res) ELSE first
           /\ pc' = IF strategy = "optimized" /\ res.success
                    THEN "improve" ELSE "done"
    /\ iteration' = 0
    /\ UNCHANGED <<inputVars, entityVars, rng, loopVars, mode, strategy,
                   kwargs, ret, calls>>

\* An improvement that takes the assignees off every project.
attempt_improvement_unassigns ==
    /\ assigned_employees' = [p \in ProjIds |-> <<>>]
    /\ UNCHANGED <<assignments, regular_hours_worked, overtime_hours_worked,
                   status>>

\* The body of _attempt_improvement.
attempt_improvement == UNCHANGED entityVars

\* OptimizedScheduler.schedule, lines 168-179: one iteration of the
\* improvement loop; _attempt_improvement returns False.
AttemptImprovement ==
    /\ pc = "improve"
    /\ iteration < Min(MaxIterations, IterationCap)
    /\ attempt_improvement
    /\ iteration' = iteration + 1
    /\ UNCHANGED <<inputVars, rng, pc, loopVars, results, mode, first,
                   strategy, kwargs, ret, calls>>

\* OptimizedScheduler.schedule, lines 181-191: the optimization record (no
\* iteration lowered the cost, so final_cost is the initial cost) and the
\* statistics computed again.
FinishOptimized ==
    /\ pc = "improve"
    /\ iteration >= Min(MaxIterations, IterationCap)
    /\ results' = [success |-> results.success,
                   scheduled_projects |-> results.scheduled_projects,
                   failed_projects |-> results.failed_projects,
                   statistics |-> CalculateStatistics,
                   optimization |-> [initial_cost10 |-> get_total_cost10,
                                     final_cost10 |-> get_total_cost10,
                                     improvement10 |-> 0,
                                     improvements_made |-> 0]]
    /\ pc' = "done"
    /\ UNCHANGED <<inputVars, entityVars, rng, loopVars, mode, first, callVars>>


Pristine ==
    /\ assignments = [e \in EmpIds |-> <<>>]
    /\ regular_hours_worked = [e \in EmpIds |-> 0]
    /\ overtime_hours_worked = [e \in EmpIds |-> 0]
    /\ assigned_employees = [p \in ProjIds |-> <<>>]
    /\ status = [p \in ProjIds |-> "Pending"]

\* The entities are constructed anew: nothing assigned, no hours.
Rebuild ==
    /\ assignments' = [e \in EmpIds |-> <<>>]
    /\ regular_hours_worked' = [e \in EmpIds |-> 0]
    /\ overtime_hours_worked' = [e \in EmpIds |-> 0]
    /\ assigned_employees' = [p \in ProjIds |-> <<>>]
    /\ status' = [p \in ProjIds |-> "Pending"]

\* schedule_projects() is called again on the Schedule the last run left.
Rerun ==
    /\ pc = "done"
    /\ mode = "initial"
    /\ pc' = "idle"
    /\ mode' = "rerun"
    /\ UNCHANGED <<inputVars, entityVars, rng, loopVars, results, first, callVars>>

\* The same process builds the same Schedule again (same employees and
\* projects in the same order, nothing assigned) for another run; nothing
\* touches the generator of module random.
NewSchedule ==
    /\ pc = "done"
    /\ mode = "initial"
    /\ Rebuild
    /\ pc' = "idle"
    /\ mode' = "copy"
    /\ UNCHANGED <<inputVars, rng, loopVars, results, first, callVars>>

\* DataGenerator(seed) seeds the generator and the generation draws from it.
AfterGeneration(s) == RandomNext(RandomSeed(s))

\* SchedulingApplication(seed) is built again and generates the scenario again:
\* DataGenerator.__init__ re-seeds the generator of module random. The next
\* run is asked for with any strategy, with the options run_scheduling passes,
\* with a seed besides, or with none.
AppKwargs == {"balance_workload", "minimize_overtime"}
Strategies == {"greedy", "optimized"}
KwargsMenu == {{}, AppKwargs, AppKwargs \cup {"seed"}}

Regenerate ==
    /\ pc = "done"
    /\ mode = "initial"
    /\ Rebuild
    /\ rng' = AfterGeneration(seed)
    /\ pc' = "idle"
    /\ mode' = "regenerated"
    /\ strategy' \in Strategies
    /\ kwargs' \in KwargsMenu
    /\ UNCHANGED <<inputVars, loopVars, results, first, iteration, ret,
                   calls>>

-----------------------------------------------------------------------------
(* The Schedules of the model *)
Primary(k) == ((k - 1) % NumSkills) + 1

\* generate_employees: a primary skill by position, and for some a second one.
AwaySlot == Slot(H(8), H(12))
AwayChoices == {0, 1}
Versatile == {1, 2}

Person(k, versatile, away) ==
    [skills |-> IF k \in versatile THEN {Primary(k), Primary(k + 1)}
                ELSE {Primary(k)},
     unavailable_slots |-> IF k = away THEN {AwaySlot} ELSE {}]

\* The employees of set present, in increasing order.
Staff(present, versatile, away) ==
    LET In(k) == k \in present
        who == SelectSeq([k \in 1..NumEmps |-> k], In)
    IN  [i \in 1..Len(who) |-> Person(who[i], versatile, away)]

SlotA == Slot(H(9), H(13))
SlotB == Slot(H(11), H(16))
SlotC == Slot(H(13), H(18))
SlotD == Slot(H(18) + 1, H(28) + 1)
SlotMenu == {SlotA, SlotB, SlotC}
SlotMenuOne == SlotMenu \cup {SlotD}
Priorities == {1, 2}
Seeds == {0, 1}

Identity == [i \in 1..NumSkills |-> i]
Reverse == [i \in 1..NumSkills |-> NumSkills + 1 - i]
Rotation(r) == [i \in 1..NumSkills |-> ((i + r - 1) % NumSkills) + 1]
OrderMenu == {Identity, Reverse}
Rotations == {Rotation(r) : r \in 0..(NumSkills - 1)} \cup {Reverse}

NoRun ==
    /\ pc = "idle"
    /\ sorted_projects = <<>>
    /\ pi = 1
    /\ missing_skills = <<>>
    /\ si = 1
    /\ results = NoResults
    /\ mode = "initial"
    /\ first = <<>>
    /\ strategy = "greedy"
    /\ kwargs = AppKwargs
    /\ iteration = 0
    /\ ret = <<>>

NotStarted == NoRun /\ calls = <<>>

Configured ==
    /\ options = [balance_workload |-> TRUE, minimize_overtime |-> TRUE]
    /\ seed \in Seeds
    /\ rng = AfterGeneration(seed)

\* A Schedule without employees, and one whose employees hold no skill.
NoStaff == <<>>
Unskilled == [k \in 1..NumEmps |-> [skills |-> {}, unavailable_slots |-> {}]]

\* NumEmps employees and NumProjs projects.
Init ==
    /\ \E versatile \in SUBSET Versatile, away \in AwayChoices :
           employees = Staff(1..NumEmps, versatile, away)
    /\ projects \in [1..NumProjs -> [time_slot : SlotMenu,
                                     required_skills : OrderMenu,
                                     priority : Priorities]]
    /\ Configured
    /\ Pristine
    /\ NotStarted

\* One project and any selection of the employees, none included.
InitOne ==
    /\ \E present \in SUBSET (1..NumEmps), versatile \in SUBSET Versatile :
           employees = Staff(present, versatile, 0)
    /\ projects \in [{1} -> [time_slot : SlotMenuOne,
                             required_skills : Rotations,
                             priority : {1}]]
    /\ Configured
    /\ Pristine
    /\ NotStarted

Schedule ==
    \/ StartRun
    \/ SkipStaffed
    \/ BeginProject
    \/ NoCandidates
    \/ Commit
    \/ Rejected
    \/ EndProject
    \/ FinishRun

Next == Schedule \/ Rerun

Spec == Init /\ [][Next]_vars

\* NumProjs projects; no employee, employees without skills, or NumEmps
\* employees of whom the first is away in the morning.
StaffMenu == {NoStaff, Unskilled, Staff(1..NumEmps, {}, 1),
              Staff(1..NumEmps, Versatile, 1)}

InitFair ==
    /\ employees \in StaffMenu
    /\ projects \in [1..NumProjs -> [time_slot : {SlotA, SlotC},
                                     required_skills : OrderMenu,
                                     priority : {1}]]
    /\ Configured
    /\ Pristine
    /\ NotStarted

\* One employee per skill and two more, who hold one skill or two; nobody is
\* away, or the employee of the third skill is.
Extras == {NumSkills + 1, NumSkills + 2}
AwayDedicated == {0, 3}

Dedicated(extra, away) ==
    [k \in 1..(NumEmps + 2) |-> Person(k, extra, away)]

InitDedicated ==
    /\ \E extra \in SUBSET Extras, away \in AwayDedicated :
           employees = Dedicated(extra, away)
    /\ projects \in [{1} -> [time_slot : SlotMenuOne,
                             required_skills : Rotations,
                             priority : {1}]]
    /\ Configured
    /\ Pristine
    /\ NotStarted

SpecDedicated == InitDedicated /\ [][Next]_vars

\* schedule() is a sequential loop: a call that has begun takes its next step.
FairSpec == InitFair /\ [][Next]_vars /\ WF_vars(Schedule)

\* One employee more than a team takes, the last with the skill of the first.
Crew(versatile, away) ==
    [k \in 1..(NumEmps + 1) |-> Person(k, versatile, away)]

\* One project, created PENDING without assignees, and the employees to
\* assign to it.
InitProject ==
    /\ \E versatile \in SUBSET Versatile, away \in AwayChoices :
           employees = Crew(versatile, away)
    /\ projects \in [{1} -> [time_slot : SlotMenu,
                             required_skills : OrderMenu,
                             priority : {1}]]
    /\ Configured
    /\ Pristine
    /\ NotStarted

\* What a call left: the exception it raised, or the value it returned.
Returned(call, raised, value) == [call |-> call, raised |-> raised, value |-> value]

\* project.assign_employee(employee) called directly, and it returns.
AssignEmployeeCall(p, e) ==
    /\ can_assign_employee(p, e)
    /\ AssignEmployee(p, e)
    /\ ret' = Returned("assign_employee", "None", <<p, e>>)
    /\ UNCHANGED <<inputVars, rng, pc, loopVars, results, mode, first,
                   strategy, kwargs, iteration, calls>>

\* assign_employee that appends to the project's list before it checks.
AssignEmployeeRaisesLate(p, e) ==
    /\ ~can_assign_employee(p, e)
    /\ ret' = Returned("assign_employee", "ValueError", <<p, e>>)
    /\ assigned_employees' = [assigned_employees EXCEPT ![p] = Append(@, e)]
    /\ UNCHANGED <<inputVars, assignments, regular_hours_worked,
                   overtime_hours_worked, status, rng, pc, loopVars, results,
                   mode, first, strategy, kwargs, iteration, calls>>

\* project.assign_employee(employee) called directly, and it raises.
AssignEmployeeRaises(p, e) ==
    /\ ~can_assign_employee(p, e)
    /\ ret' = Returned("assign_employee", "ValueError", <<p, e>>)
    /\ UNCHANGED <<inputVars, entityVars, rng, pc, loopVars, results, mode,
                   first, strategy, kwargs, iteration, calls>>

\* employee.add_assignment(Assignment(employee, project, project.time_slot))
\* called directly: it raises for an employee who is not available, else the
\* employee's list grows and the hours are updated; the project is not touched.
AddAssignment(e, p) ==
    LET assignment == [project |-> p, time_slot |-> projects[p].time_slot]
        asgs == Append(assignments[e], assignment)
        delta == UpdateHours(asgs, assignment.time_slot)
    IN  /\ IF ~is_available(e, assignment.time_slot)
           THEN /\ ret' = Returned("add_assignment", "ValueError", <<e, p>>)
                /\ UNCHANGED <<assignments, regular_hours_worked,
                               overtime_hours_worked>>
           ELSE /\ ret' = Returned("add_assignment", "None", <<e, p>>)
                /\ assignments' = [assignments EXCEPT ![e] = asgs]
                /\ regular_hours_worked' =
                       [regular_hours_worked EXCEPT ![e] = @ + delta.regular]
                /\ overtime_hours_worked' =
                       [overtime_hours_worked EXCEPT ![e] = @ + delta.overtime]
        /\ UNCHANGED <<inputVars, assigned_employees, status, rng, pc, loopVars,
                       results, mode, first, strategy, kwargs,
                       iteration, calls>>

NextProject ==
    \E p \in ProjIds, e \in EmpIds :
        AssignEmployeeCall(p, e) \/ AssignEmployeeRaises(p, e)

SpecProject == InitProject /\ [][NextProject]_vars

\* One employee more than a team takes.
TeamAndOne(versatile, away) ==
    [k \in 1..(TeamSize + 1) |-> Person(k, versatile, away)]

\* One project and the employees to assign to it, through the project or
\* directly to the employee.
InitAssign ==
    /\ \E versatile \in {{}, Versatile}, away \in AwayChoices :
           employees = TeamAndOne(versatile, away)
    /\ projects = <<[time_slot |-> SlotA, required_skills |-> Identity,
                     priority |-> 1]>>
    /\ Configured
    /\ Pristine
    /\ NotStarted

NextAssign ==
    \E p \in ProjIds, e \in EmpIds :
        \/ AssignEmployeeCall(p, e)
        \/ AssignEmployeeRaises(p, e)
        \/ AddAssignment(e, p)

SpecAssign == InitAssign /\ [][NextAssign]_vars

\* generate_project_time_slot draws the duration from uniform(2.0, 8.0): a
\* slot of four and a half hours, and a slot on the next day.
SlotE == Slot(H(13) + 1, H(18))
SlotF == Slot(H(HoursPerDay + 9), H(HoursPerDay + 13))

\* Three projects over two days, and a scheduler built with any options.
InitDays ==
    /\ \E versatile \in SUBSET Versatile, away \in AwayChoices :
           employees = Crew(versatile, away)
    /\ \E second \in {SlotC, SlotE}, order \in [1..3 -> OrderMenu] :
           projects = [i \in 1..3 |->
                          [time_slot |-> <<SlotA, second, SlotF>>[i],
                           required_skills |-> order[i],
                           priority |-> 1]]
    /\ options \in [balance_workload : BOOLEAN, minimize_overtime : BOOLEAN]
    /\ seed \in Seeds
    /\ rng = AfterGeneration(seed)
    /\ Pristine
    /\ NotStarted

SpecDays == InitDays /\ [][Next]_vars

-----------------------------------------------------------------------------
(* project.assign_employee(employee) run by several threads at once: each   *)
(* call goes through its statements one at a time, and the statements of    *)
(* the calls interleave; the source takes no lock.                          *)
restVars == <<inputVars, rng, pc, loopVars, results, mode, first, strategy,
              kwargs, iteration, ret>>

At(t, label) == calls[t].pc = label
Goto(t, label) == calls' = [calls EXCEPT ![t].pc = label]

\* Line 205: can_assign_employee is evaluated; ValueError if it is false.
CanAssignCheck(t) ==
    /\ At(t, "start")
    /\ IF can_assign_employee(calls[t].project, calls[t].employee)
       THEN Goto(t, "append")
       ELSE Goto(t, "raised")
    /\ UNCHANGED <<restVars, entityVars>>

\* Line 208: self.assigned_employees.append(employee).
ProjectAppend(t) ==
    /\ At(t, "append")
    /\ assigned_employees' =
           [assigned_employees EXCEPT ![calls[t].project] = Append(@, calls[t].employee)]
    /\ Goto(t, "add_assignment")
    /\ UNCHANGED <<restVars, assignments, regular_hours_worked,
                   overtime_hours_worked, status>>

\* Lines 210-215 and 89-90: the Assignment is created and add_assignment
\* checks is_available again; ValueError if it is false.
AvailabilityCheck(t) ==
    /\ At(t, "add_assignment")
    /\ IF is_available(calls[t].employee, projects[calls[t].project].time_slot)
       THEN Goto(t, "assignments")
       ELSE Goto(t, "raised")
    /\ UNCHANGED <<restVars, entityVars>>

\* Line 92: self.assignments.append(assignment).
EmployeeAppend(t) ==
    /\ At(t, "assignments")
    /\ assignments' =
           [assignments EXCEPT ![calls[t].employee] =
               Append(@, [project |-> calls[t].project,
                          time_slot |-> projects[calls[t].project].time_slot])]
    /\ Goto(t, "hours")
    /\ UNCHANGED <<restVars, regular_hours_worked, overtime_hours_worked,
                   assigned_employees, status>>

\* Line 93: self._update_hours(assignment.time_slot).
UpdateHoursStep(t) ==
    /\ At(t, "hours")
    /\ LET e == calls[t].employee
           delta == UpdateHours(assignments[e], projects[calls[t].project].time_slot)
       IN  /\ regular_hours_worked' =
                  [regular_hours_worked EXCEPT ![e] = @ + delta.regular]
           /\ overtime_hours_worked' =
                  [overtime_hours_worked EXCEPT ![e] = @ + delta.overtime]
    /\ Goto(t, "status")
    /\ UNCHANGED <<restVars, assignments, assigned_employees, status>>

\* Lines 217-218: the status follows the head count; the call returns.
StatusStep(t) ==
    /\ At(t, "status")
    /\ status' = [status EXCEPT
                     ![calls[t].project] =
                         IF is_fully_staffed(calls[t].project) THEN "Scheduled" ELSE @]
    /\ Goto(t, "done")
    /\ UNCHANGED <<restVars, assignments, regular_hours_worked,
                   overtime_hours_worked, assigned_employees>>

\* NumProjs projects and one call per project, all for the same employee.
InitThreads ==
    /\ \E versatile \in SUBSET Versatile, away \in AwayChoices :
           employees = Staff(1..NumEmps, versatile, away)
    /\ projects \in [1..NumProjs -> [time_slot : SlotMenu,
                                     required_skills : {Identity},
                                     priority : {1}]]
    /\ Configured
    /\ Pristine
    /\ NoRun
    /\ \E e \in EmpIds :
           calls = [t \in 1..NumProjs |->
                       [pc |-> "start", project |-> t, employee |-> e]]

NextThreads ==
    \E t \in DOMAIN calls :
        \/ CanAssignCheck(t)
        \/ ProjectAppend(t)
        \/ AvailabilityCheck(t)
        \/ EmployeeAppend(t)
        \/ UpdateHoursStep(t)
        \/ StatusStep(t)

SpecThreads == InitThreads /\ [][NextThreads]_vars

Optimize == CreateSchedulerRaises \/ AttemptImprovement \/ FinishOptimized

NextOne == Schedule \/ Rerun \/ NewSchedule \/ Regenerate \/ Optimize

SpecOne == InitOne /\ [][NextOne]_vars

\* generate_scenario of another request, served by another thread of the
\* same process: SchedulingApplication(seed=42) re-seeds the generator of
\* module random ...
ServerSeed == 42

OtherRequestSeeds ==
    /\ rng' = RandomSeed(ServerSeed)
    /\ UNCHANGED <<inputVars, entityVars, pc, loopVars, results, mode, first,
                   callVars>>

\* ... and its data generation and its scheduling run draw from it.
OtherRequestDraws ==
    /\ rng' = RandomNext(rng)
    /\ UNCHANGED <<inputVars, entityVars, pc, loopVars, results, mode, first,
                   callVars>>

\* One project and two employees for its first skill.
InitShared ==
    /\ \E versatile \in SUBSET Versatile : employees = Crew(versatile, 0)
    /\ projects \in [{1} -> [time_slot : {SlotA},
                             required_skills : Rotations,
                             priority : {1}]]
    /\ Configured
    /\ Pristine
    /\ NotStarted

NextShared == NextOne \/ OtherRequestSeeds \/ OtherRequestDraws

SpecShared == InitShared /\ [][NextShared]_vars


-----------------------------------------------------------------------------
(* ConflictDetector *)
\* sorted(employee.assignments, key=start): a stable sort.
SortByStart(asgs) ==
    LET Rank(i) == Cardinality({j \in 1..Len(asgs) :
                       \/ asgs[j].time_slot.start < asgs[i].time_slot.start
                       \/ /\ asgs[j].time_slot.start = asgs[i].time_slot.start
                          /\ j < i})
    IN  [k \in 1..Len(asgs) |-> asgs[CHOOSE i \in 1..Len(asgs) : Rank(i) = k - 1]]

\* find_employee_conflicts: the pairs (i, j), i < j, of the sorted list whose
\* slots overlap; the list the source returns holds one entry per such pair.
find_employee_conflicts(e) ==
    LET sorted == SortByStart(assignments[e])
    IN  {pair \in (1..Len(sorted)) \X (1..Len(sorted)) :
            /\ pair[1] < pair[2]
            /\ overlaps_with(sorted[pair[1]].time_slot, sorted[pair[2]].time_slot)}

\* find_all_conflicts: the employees that have conflicts; storing the first
\* of them as a key of the dict raises TypeError, Employee being a dataclass
\* with eq and without hash.
find_all_conflicts ==
    LET hit == {e \in EmpIds : find_employee_conflicts(e) # {}}
    IN  IF hit = {}
        THEN Returned("find_all_conflicts", "None", <<>>)
        ELSE Returned("find_all_conflicts", "TypeError", <<>>)

\* validate_project_staffing: head count and missing skills as errors, the
\* required skills nobody assigned holds as warnings.
validate_project_staffing(p) ==
    LET assigned_skills ==
            UNION {employees[e].skills : e \in Range(assigned_employees[p])}
        Uncovered(skill) == skill \notin assigned_skills
    IN  [valid |-> is_fully_staffed(p),
         errors |-> IF is_fully_staffed(p) THEN <<>>
                    ELSE <<Len(assigned_employees[p]), get_missing_skills(p)>>,
         warnings |-> SelectSeq(projects[p].required_skills, Uncovered)]

\* Schedule.validate_schedule, lines 315-323: the employee's assignments
\* sorted by start into a new list, one error per overlapping adjacent pair.
EmployeeErrors(e) ==
    LET sorted == SortByStart(assignments[e])
        Flag(i) == overlaps_with(sorted[i].time_slot, sorted[i + 1].time_slot)
        flagged == SelectSeq([i \in 1..(Len(sorted) - 1) |-> i], Flag)
    IN  [k \in 1..Len(flagged) |->
            [employee |-> e,
             first |-> sorted[flagged[k]].project,
             second |-> sorted[flagged[k] + 1].project]]

RECURSIVE ErrorsUpTo(_)
ErrorsUpTo(n) == IF n = 0 THEN <<>> ELSE ErrorsUpTo(n - 1) \o EmployeeErrors(n)

validate_schedule ==
    LET errors == ErrorsUpTo(Len(employees))
        unstaffed == {p \in ProjIds : ~is_fully_staffed(p)}
    IN  [valid |-> errors = <<>>,
         errors |-> errors,
         warnings |-> IF unstaffed # {} THEN <<Cardinality(unstaffed)>> ELSE <<>>,
         stats |-> [total_employees |-> Len(employees),
                    total_projects |-> Len(projects),
                    fully_staffed_projects |->
                        Cardinality({p \in ProjIds : is_fully_staffed(p)}),
                    total_assignments |->
                        SumSeq([e \in 1..Len(employees) |-> Len(assignments[e])])]]

\* validate_schedule with the employees' lists sorted in place.
ValidateScheduleSortsInPlace ==
    /\ ret' = Returned("validate_schedule", "None", validate_schedule)
    /\ assignments' = [e \in EmpIds |-> SortByStart(assignments[e])]
    /\ UNCHANGED <<inputVars, regular_hours_worked, overtime_hours_worked,
                   assigned_employees, status, rng, pc, loopVars, results,
                   mode, first, strategy, kwargs, iteration, calls>>

ValidateSchedule ==
    /\ ret' = Returned("validate_schedule", "None", validate_schedule)
    /\ UNCHANGED <<inputVars, entityVars, rng, pc, loopVars, results, mode,
                   first, strategy, kwargs, iteration, calls>>

FindAllConflicts ==
    /\ ret' = find_all_conflicts
    /\ UNCHANGED <<inputVars, entityVars, rng, pc, loopVars, results, mode,
                   first, strategy, kwargs, iteration, calls>>

ValidateProjectStaffing(p) ==
    /\ ret' = Returned("validate_project_staffing", "None",
                       validate_project_staffing(p))
    /\ UNCHANGED <<inputVars, entityVars, rng, pc, loopVars, results, mode,
                   first, strategy, kwargs, iteration, calls>>

\* A Schedule whose first employee was built with a list of assignments, in
\* any order and overlapping or not; the project with no team or a full one.
LoadHours == 9..12
LoadSlots == {ts \in {Slot(H(a), H(b)) : a, b \in LoadHours} : ValidSlot(ts)}
LoadedLists ==
    UNION {[1..n -> [project : {1}, time_slot : LoadSlots]] : n \in 0..MaxAssignments}

InitLoaded ==
    /\ employees = Staff(1..NumEmps, {}, 0)
    /\ projects = <<[time_slot |-> SlotA, required_skills |-> Identity,
                     priority |-> 1]>>
    /\ Configured
    /\ NotStarted
    /\ \E list \in LoadedLists :
           assignments = [e \in EmpIds |-> IF e = 1 THEN list ELSE <<>>]
    /\ regular_hours_worked = [e \in EmpIds |-> 0]
    /\ overtime_hours_worked = [e \in EmpIds |-> 0]
    /\ \/ assigned_employees = <<<<>>>> /\ status = <<"Pending">>
       \/ /\ assigned_employees = <<[k \in 1..TeamSize |-> k]>>
          /\ status = <<"Scheduled">>

NextLoaded ==
    \/ ValidateSchedule
    \/ FindAllConflicts
    \/ \E p \in ProjIds : ValidateProjectStaffing(p)

SpecLoaded == InitLoaded /\ [][NextLoaded]_vars

\* TimeSlot(start, end) raises ValueError for an end that is not after the
\* start.
TimeSlotRaises(s, e) ==
    /\ ~ValidSlot(Slot(s, e))
    /\ ret' = Returned("TimeSlot", "ValueError", <<s, e>>)
    /\ UNCHANGED <<inputVars, entityVars, rng, pc, loopVars, results, mode,
                   first, strategy, kwargs, iteration, calls>>

\* a.overlaps_with(b) on two slots that were constructed.
OverlapsWith(a, b) ==
    /\ ValidSlot(a)
    /\ ValidSlot(b)
    /\ ret' = Returned("overlaps_with", "None",
                       [a |-> a, b |-> b, result |-> overlaps_with(a, b)])
    /\ UNCHANGED <<inputVars, entityVars, rng, pc, loopVars, results, mode,
                   first, strategy, kwargs, iteration, calls>>

InitCalls ==
    /\ employees = NoStaff
    /\ projects = <<>>
    /\ Configured
    /\ Pristine
    /\ NotStarted

Times == 0..MaxTime

NextCalls ==
    \E s1, e1, s2, e2 \in Times :
        \/ TimeSlotRaises(s1, e1)
        \/ OverlapsWith(Slot(s1, e1), Slot(s2, e2))

SpecCalls == InitCalls /\ [][NextCalls]_vars

\* __post_init__ that checks the length only.
ValidSkillSetLengthOnly(required_skills) == Len(required_skills) = 5

\* Project.__post_init__ does not raise.
ValidSkillSet(required_skills) ==
    /\ ~(Len(required_skills) # 5)
    /\ ~(Cardinality(Range(required_skills)) # 5)

\* Project(..., required_skills=...) raises ValueError: there is no project.
ProjectRaises(t) ==
    /\ calls[t].pc = "start"
    /\ ~ValidSkillSet(calls[t].required_skills)
    /\ calls' = [calls EXCEPT ![t].pc = "raised"]
    /\ ret' = Returned("Project", "ValueError", <<>>)
    /\ UNCHANGED <<inputVars, entityVars, rng, pc, loopVars, results, mode,
                   first, strategy, kwargs, iteration>>

\* Project(..., required_skills=...) returns the project, PENDING and without
\* assignees, and it is put on the Schedule.
ProjectCreated(t) ==
    /\ calls[t].pc = "start"
    /\ ValidSkillSet(calls[t].required_skills)
    /\ calls' = [calls EXCEPT ![t].pc = "done"]
    /\ ret' = Returned("Project", "None", Len(projects) + 1)
    /\ projects' = Append(projects,
                          [time_slot |-> calls[t].time_slot,
                           required_skills |-> calls[t].required_skills,
                           priority |-> calls[t].priority])
    /\ assigned_employees' = Append(assigned_employees, <<>>)
    /\ status' = Append(status, "Pending")
    /\ UNCHANGED <<employees, options, seed, assignments, regular_hours_worked,
                   overtime_hours_worked, rng, pc, loopVars, results, mode,
                   first, strategy, kwargs, iteration>>

\* The lists of skills of length MaxSkillList at most, repetitions included.
SkillLists == UNION {[1..n -> Skills] : n \in 0..MaxSkillList}

\* A Schedule without projects and one constructor call to be made.
InitConstruct ==
    /\ employees = Staff(1..NumEmps, {}, 0)
    /\ projects = <<>>
    /\ Configured
    /\ Pristine
    /\ NoRun
    /\ \E list \in SkillLists :
           calls = <<[pc |-> "start", time_slot |-> SlotA,
                      required_skills |-> list, priority |-> 1]>>

NextConstruct == \E t \in DOMAIN calls : ProjectRaises(t) \/ ProjectCreated(t)

SpecConstruct == InitConstruct /\ [][NextConstruct]_vars

-----------------------------------------------------------------------------
(* Properties *)
\* Half-open interval intersection.
Intersect(a, b) == a.start < b.end /\ b.start < a.end

TotalHours(e) == regular_hours_worked[e] + overtime_hours_worked[e]
Committed(e) ==
    SumSeq([i \in 1..Len(assignments[e]) |-> duration_hours(assignments[e][i].time_slot)])

FirstRunDone == pc = "done" /\ mode = "initial"

\* C1: no employee holds two assignments with intersecting slots, none of an
\* employee's assignments intersects one of the employee's unavailable slots,
\* and find_employee_conflicts is empty for every employee.
NoEmployeeConflicts ==
    \A e \in EmpIds :
        /\ \A i, j \in 1..Len(assignments[e]) :
               i < j => ~Intersect(assignments[e][i].time_slot,
                                   assignments[e][j].time_slot)
        /\ \A i \in 1..Len(assignments[e]) :
               \A u \in employees[e].unavailable_slots :
                   ~Intersect(assignments[e][i].time_slot, u)
        /\ find_employee_conflicts(e) = {}

\* A finished run in which one employee holds two assignments and an employee
\* with an unavailable slot holds one.
NoEmployeeConflictsWitness ==
    /\ pc = "done"
    /\ \E e \in EmpIds : Len(assignments[e]) = 2
    /\ \E e \in EmpIds :
           employees[e].unavailable_slots # {} /\ Len(assignments[e]) >= 1


\* The split the daily cap gives hours committed after prior hours that day.
CapRegular(prior, hours) ==
    IF prior <= H(MAX_REGULAR_HOURS_PER_DAY)
    THEN Min(hours, H(MAX_REGULAR_HOURS_PER_DAY) - prior)
    ELSE 0

\* C2: a commit of hours on date D adds regular = min(hours, 8h - prior) and
\* overtime = hours - regular (regular = 0 once prior exceeds 8h), prior being
\* the hours of the employee's earlier assignments that start on D, the one
\* being committed not counted.
CommitSplitsByPriorHours ==
    [][\A e \in EmpIds :
          Len(assignments'[e]) = Len(assignments[e]) + 1 =>
              LET ts == assignments'[e][Len(assignments'[e])].time_slot
                  hours == duration_hours(ts)
                  prior == DailyHours(assignments[e], Date(ts.start))
                  regular == CapRegular(prior, hours)
              IN  /\ regular_hours_worked'[e] = regular_hours_worked[e] + regular
                  /\ overtime_hours_worked'[e] =
                         overtime_hours_worked[e] + (hours - regular)]_vars

DatesOf(e) == {Date(assignments[e][i].time_slot.start) : i \in 1..Len(assignments[e])}

\* The overtime of a day is what its hours exceed the cap by.
DayOvertime(e) ==
    [d \in DatesOf(e) |->
        Max(0, DailyHours(assignments[e], d) - H(MAX_REGULAR_HOURS_PER_DAY))]

\* C3: the totals of an employee depend on the set of assignments, not on the
\* order they were committed in: overtime is the sum over the days of
\* max(0, hours of the day - 8h), regular is the rest.
TotalsIndependentOfOrder ==
    \A e \in EmpIds :
        /\ overtime_hours_worked[e] = SumOver(DatesOf(e), DayOvertime(e))
        /\ regular_hours_worked[e] = Committed(e) - SumOver(DatesOf(e), DayOvertime(e))

\* C4: regular plus overtime hours of an employee are the hours of the
\* employee's committed assignments, and neither total is negative.
HoursAccounted ==
    \A e \in EmpIds :
        /\ TotalHours(e) = Committed(e)
        /\ regular_hours_worked[e] >= 0
        /\ overtime_hours_worked[e] >= 0

\* An employee with two assignments, some of the hours regular, some overtime.
HoursAccountedWitness ==
    \E e \in EmpIds :
        /\ Len(assignments[e]) = 2
        /\ regular_hours_worked[e] > 0
        /\ overtime_hours_worked[e] > 0


\* Every employee holds one skill, no two the same, and has no unavailable slot.
Specialists ==
    /\ \A e \in EmpIds : Cardinality(employees[e].skills) = 1
    /\ \A e, f \in EmpIds : e # f => employees[e].skills # employees[f].skills
    /\ \A e \in EmpIds : employees[e].unavailable_slots = {}

Held == UNION {employees[e].skills : e \in EmpIds}

OneProject == Len(projects) = 1

\* C5: with four employees of one distinct skill each and one project, the
\* run reports the project failed with exactly the skill nobody holds as
\* missing, and each of the four employees holds one assignment to the
\* project, hours accounted.
FailureKeepsFourAssignments ==
    (FirstRunDone /\ OneProject /\ Len(employees) = 4 /\ Specialists) =>
        /\ Len(results.failed_projects) = 1
        /\ results.failed_projects[1].id = 1
        /\ Range(results.failed_projects[1].missing_skills) = Skills \ Held
        /\ Len(results.failed_projects[1].missing_skills) = 1
        /\ Len(assigned_employees[1]) = 4
        /\ \A e \in EmpIds :
               /\ Len(assignments[e]) = 1
               /\ assignments[e][1].project = 1
               /\ TotalHours(e) = duration_hours(projects[1].time_slot)

\* C6: the run records a project as failed only when, at that moment, some
\* skill that the project's assignees do not cover has no candidate; the skill
\* it finds no candidate for is never one an assignee already covers.
GiveUpOnlyOnUnfilledSkill ==
    [][Len(results'.failed_projects) = Len(results.failed_projects) + 1 =>
          /\ \E skill \in Range(get_missing_skills(CurrentProject)) :
                 get_available_employees(projects[CurrentProject].time_slot,
                                         skill) = <<>>
          /\ si <= Len(missing_skills) =>
                 ~SkillCovered(CurrentProject, missing_skills[si])]_vars

FailedIds == {results.failed_projects[i].id : i \in 1..Len(results.failed_projects)}

\* C7: when a run is over every project is either fully staffed with nothing
\* missing and not reported failed, or reported failed with a non-empty list
\* of missing skills.
TerminalStates ==
    pc = "done" =>
        /\ \A p \in ProjIds :
               \/ /\ is_fully_staffed(p)
                  /\ get_missing_skills(p) = <<>>
                  /\ p \notin FailedIds
               \/ /\ ~is_fully_staffed(p)
                  /\ p \in FailedIds
        /\ \A i \in 1..Len(results.failed_projects) :
               results.failed_projects[i].missing_skills # <<>>

\* C8: a second run in the same process on the same Schedule built anew, with
\* the same seed, strategy and options, returns what the first run returned and leaves
\* the same assignments, hours and statuses.
ReproducibleRuns ==
    (pc = "done" /\ mode \in {"copy", "regenerated"} /\ strategy = "greedy") =>
        Outcome(results) = first

\* C9: five employees of one distinct skill each and one project of at most
\* 8 hours: one project scheduled, none failed, five times the project's
\* hours regular, no overtime.
EndToEnd ==
    (/\ FirstRunDone /\ OneProject /\ Len(employees) = 5 /\ Specialists
     /\ duration_hours(projects[1].time_slot) <= H(MAX_REGULAR_HOURS_PER_DAY)) =>
        /\ results.scheduled_projects = 1
        /\ results.failed_projects = <<>>
        /\ results.statistics.total_regular_hours =
               5 * duration_hours(projects[1].time_slot)
        /\ results.statistics.total_overtime_hours = 0

\* C10: when a run is over each project is either fully staffed and not in
\* failed_projects or not fully staffed and in failed_projects exactly once;
\* scheduled_projects plus the failed ones are all the projects;
\* scheduled_projects is the statistics' fully staffed count; success says
\* that no project failed.
EveryProjectAccounted ==
    pc = "done" =>
        /\ \A p \in ProjIds :
               LET entries == {i \in 1..Len(results.failed_projects) :
                                  results.failed_projects[i].id = p}
               IN  IF is_fully_staffed(p) THEN entries = {}
                   ELSE Cardinality(entries) = 1
        /\ results.scheduled_projects + Len(results.failed_projects) = Len(projects)
        /\ results.scheduled_projects = results.statistics.fully_staffed_projects
        /\ results.scheduled_projects =
               Cardinality({p \in ProjIds : is_fully_staffed(p)})
        /\ results.success = (results.failed_projects = <<>>)

\* A finished run with one project scheduled and the other failed.
EveryProjectAccountedWitness ==
    /\ pc = "done"
    /\ results.scheduled_projects = 1
    /\ Len(results.failed_projects) = 1


Running == pc \in {"idle", "project", "skill"}

\* C11: a project that fails does not end the run: the step that records a
\* failure moves on to the next position of the same processing order, and a
\* run in which a project failed goes on until it has passed the last
\* position of that order and returned.
FailureNeverAborts ==
    /\ [][Len(results'.failed_projects) = Len(results.failed_projects) + 1 =>
              /\ pc' = "project"
              /\ pi' = pi + 1
              /\ sorted_projects' = sorted_projects]_vars
    /\ (Running /\ results.failed_projects # <<>>)
           ~> (pc = "done" /\ pi = Len(sorted_projects) + 1)

\* A finished run whose first project failed and whose second is fully staffed.
FailureNeverAbortsWitness ==
    /\ pc = "done"
    /\ Len(sorted_projects) >= 2
    /\ sorted_projects[1] \in FailedIds
    /\ is_fully_staffed(sorted_projects[2])
    /\ sorted_projects[2] \notin FailedIds

\* C12: every run ends, and when it has ended every project is fully
\* staffed or recorded as failed; without employees every project is recorded
\* as failed with all its required skills missing and nothing is assigned.
Termination ==
    /\ Running ~> (pc = "done")
    /\ [](pc = "done" =>
             \A p \in ProjIds : is_fully_staffed(p) \/ p \in FailedIds)
    /\ [](pc = "done" /\ employees = NoStaff =>
             /\ Len(results.failed_projects) = Len(projects)
             /\ \A i \in 1..Len(results.failed_projects) :
                    LET entry == results.failed_projects[i]
                    IN  /\ entry.missing_skills = projects[entry.id].required_skills
                        /\ assigned_employees[entry.id] = <<>>
             /\ ProjIds \subseteq FailedIds)

\* A finished run on a Schedule without employees.
TerminationWitness ==
    /\ pc = "done"
    /\ employees = NoStaff
    /\ Len(results.failed_projects) = Len(projects)
    /\ Len(projects) >= 2


\* The employees who hold the skill and whom no unavailable slot keeps from
\* either of the two projects.
Eligible(skill, p, q) ==
    {e \in EmpIds :
        /\ has_skill(e, skill)
        /\ \A u \in employees[e].unavailable_slots :
               /\ ~Intersect(projects[p].time_slot, u)
               /\ ~Intersect(projects[q].time_slot, u)}

\* The sorted list is ordered by priority descending, then start ascending,
\* then input order.
InProcessingOrder ==
    \A i, j \in 1..Len(sorted_projects) :
        i < j => SortsBefore(sorted_projects[i], sorted_projects[j])

\* Nothing is assigned to a project that comes after the one being worked on.
NothingAssignedAhead ==
    \A j \in 1..Len(sorted_projects) :
        j > pi => assigned_employees[sorted_projects[j]] = <<>>

\* C13: in a run on a Schedule with nothing assigned the projects are taken
\* in the order priority descending, start ascending, input order: no project
\* has an assignee while a project before it in that order is still being
\* worked on or waiting; and of two overlapping projects that need a skill
\* for which one employee alone is eligible, the earlier one holds that
\* employee when the run is over.
ProcessedInOrder ==
    (mode = "initial" /\ pc \in {"project", "skill", "done"}) =>
        /\ InProcessingOrder
        /\ NothingAssignedAhead
        /\ pc = "done" =>
               \A i, j \in 1..Len(sorted_projects) : \A skill \in Skills :
                   LET p == sorted_projects[i]
                       q == sorted_projects[j]
                   IN  (/\ i < j
                        /\ Intersect(projects[p].time_slot, projects[q].time_slot)
                        /\ Cardinality(Eligible(skill, p, q)) = 1) =>
                           Eligible(skill, p, q) \subseteq Range(assigned_employees[p])


\* C14: a project's status is Scheduled exactly while it has 5 assignees, so
\* it changes in the step that commits the fifth and not before; it never
\* changes back, and a project never has more than 5 assignees.
StatusFollowsHeadCount ==
    /\ [](\A p \in ProjIds :
             /\ status[p] = "Scheduled" <=> Len(assigned_employees[p]) = TeamSize
             /\ status[p] \in {"Pending", "Scheduled"}
             /\ Len(assigned_employees[p]) <= TeamSize)
    /\ [][\A p \in ProjIds :
             /\ status[p] = "Scheduled" => status'[p] = "Scheduled"
             /\ status'[p] # status[p] =>
                    /\ Len(assigned_employees[p]) = TeamSize - 1
                    /\ Len(assigned_employees'[p]) = TeamSize]_vars

\* A project with 5 assignees, Scheduled, and a further assignment refused.
StatusFollowsHeadCountWitness ==
    /\ \E p \in ProjIds :
           Len(assigned_employees[p]) = TeamSize /\ status[p] = "Scheduled"
    /\ ret # <<>>
    /\ ret.call = "assign_employee"
    /\ ret.raised = "ValueError"
    /\ Len(employees) > TeamSize

\* C15: the assignees of a fully staffed project are 5 different employees
\* and every required skill is held by one of them.
FullyStaffedCoversAll ==
    \A p \in ProjIds :
        is_fully_staffed(p) =>
            /\ Len(assigned_employees[p]) = 5
            /\ Cardinality(Range(assigned_employees[p])) = 5
            /\ get_missing_skills(p) = <<>>
            /\ \A skill \in Range(projects[p].required_skills) :
                   \E e \in Range(assigned_employees[p]) : skill \in employees[e].skills

\* A fully staffed project one of whose assignees holds two skills, while an
\* employee is left over.
FullyStaffedCoversAllWitness ==
    \E p \in ProjIds :
        /\ is_fully_staffed(p)
        /\ \E e \in Range(assigned_employees[p]) : Cardinality(employees[e].skills) = 2
        /\ Len(employees) > Len(assigned_employees[p])


\* C16: schedule_projects called with strategy greedy or optimized and with
\* the options balance_workload and minimize_overtime, with or without a
\* seed, does not raise: it runs the scheduler and returns its result.
EntryPointReturns ==
    (strategy \in Strategies /\ kwargs \subseteq AppKwargs \cup {"seed"}) =>
        pc # "raised"

\* C17: a run of the optimized strategy ends with the assignments, hours,
\* statuses, counts and statistics that the greedy run on the same Schedule
\* with the same draws ended with, and no step of its improvement loop
\* changes an employee or a project.
OptimizedEqualsGreedy ==
    /\ []((pc = "done" /\ mode = "regenerated" /\ strategy = "optimized") =>
             /\ assignments = first.assignments
             /\ assigned_employees = first.assigned_employees
             /\ status = first.status
             /\ regular_hours_worked = first.regular_hours_worked
             /\ overtime_hours_worked = first.overtime_hours_worked
             /\ results.scheduled_projects = first.results.scheduled_projects
             /\ results.failed_projects = first.results.failed_projects
             /\ results.success = first.results.success
             /\ results.statistics = first.results.statistics
             /\ results.statistics.fully_staffed_projects
                    >= first.results.statistics.fully_staffed_projects)
    /\ [][pc = "improve" => entityVars' = entityVars]_vars

\* A finished optimized run that staffed the project with an employee of two
\* skills among the candidates, the improvement loop run to its end.
OptimizedEqualsGreedyWitness ==
    /\ pc = "done"
    /\ mode = "regenerated"
    /\ strategy = "optimized"
    /\ iteration = Min(MaxIterations, IterationCap)
    /\ "optimization" \in DOMAIN results
    /\ results.scheduled_projects = 1
    /\ \E e \in EmpIds : Cardinality(employees[e].skills) = 2


\* Some employee has two assignments, adjacent in start order or not, whose
\* slots intersect.
SomeOverlap ==
    \E e \in EmpIds : \E i, j \in 1..Len(assignments[e]) :
        i < j /\ Intersect(assignments[e][i].time_slot, assignments[e][j].time_slot)

\* validate_schedule says invalid exactly when some employee has an
\* intersecting pair of assignments.
AdjacentPairsSuffice ==
    (ret # <<>> /\ ret.call = "validate_schedule") =>
        (ret.value.valid = ~SomeOverlap)

\* C18: validate_schedule returns valid = false exactly when some employee
\* has any two assignments that intersect, and that is exactly when
\* find_all_conflicts returns a non-empty dict.
ValidateFindsEveryOverlap ==
    /\ AdjacentPairsSuffice
    /\ (ret # <<>> /\ ret.call = "find_all_conflicts") =>
           /\ ret.raised = "None"
           /\ (ret.value # <<>>) = ~validate_schedule.valid

\* C19: no call of validate_schedule, find_all_conflicts or
\* validate_project_staffing changes an employee's assignment list (its order
\* included) or hours or a project's assignees or status, and a call repeated
\* on the unchanged Schedule ends as it ended before.
ValidationReadOnly ==
    [][/\ entityVars' = entityVars
       /\ inputVars' = inputVars
       /\ (ret # <<>> /\ ret'.call = ret.call) => ret' = ret]_vars

\* validate_schedule has reported an overlap for an employee whose list is not
\* in start order.
ValidationReadOnlyWitness ==
    /\ ret # <<>>
    /\ ret.call = "validate_schedule"
    /\ ~ret.value.valid
    /\ \E e \in EmpIds : assignments[e] # SortByStart(assignments[e])

\* C20: for two slots with end after start, overlaps_with is true exactly
\* when each starts before the other ends; it gives the same answer with the
\* arguments exchanged; slots that only touch do not overlap.
OverlapsIsIntersection ==
    (ret # <<>> /\ ret.call = "overlaps_with") =>
        LET a == ret.value.a
            b == ret.value.b
        IN  /\ ret.value.result = (a.start < b.end /\ b.start < a.end)
            /\ ret.value.result = overlaps_with(b, a)
            /\ (a.end = b.start \/ b.end = a.start) => ~ret.value.result

\* overlaps_with has answered for two slots that touch.
OverlapsIsIntersectionWitness ==
    /\ ret # <<>>
    /\ ret.call = "overlaps_with"
    /\ ret.value.a.end = ret.value.b.start
    /\ ~ret.value.result


\* The slot of project p meets an unavailable slot or an assignment of e.
Busy(e, p) ==
    \/ \E u \in employees[e].unavailable_slots : Intersect(projects[p].time_slot, u)
    \/ \E i \in 1..Len(assignments[e]) :
           Intersect(projects[p].time_slot, assignments[e][i].time_slot)

\* The four cases in which project p does not take employee e.
Refused(p, e) ==
    \/ \E i \in 1..Len(assigned_employees[p]) : assigned_employees[p][i] = e
    \/ Len(assigned_employees[p]) = 5
    \/ ~\E skill \in employees[e].skills :
            /\ skill \in Range(projects[p].required_skills)
            /\ \A i \in 1..Len(assigned_employees[p]) :
                   skill \notin employees[assigned_employees[p][i]].skills
    \/ Busy(e, p)

\* C21: assign_employee raises exactly when the employee is already assigned,
\* the project has 5 assignees, the employee holds none of the missing skills
\* or is unavailable for the slot, and then assignees, status, assignments and
\* hour totals are unchanged; in every other case the employee joins the
\* project and gets the assignment. add_assignment on an unavailable employee
\* raises and changes nothing.
RejectionChangesNothing ==
    [][/\ ret'.call = "assign_employee" =>
              LET p == ret'.value[1]
                  e == ret'.value[2]
              IN  /\ ret'.raised = "ValueError" <=> Refused(p, e)
                  /\ ret'.raised = "ValueError" => UNCHANGED entityVars
                  /\ ret'.raised = "None" =>
                         /\ assigned_employees'[p] = Append(assigned_employees[p], e)
                         /\ assignments'[e] =
                                Append(assignments[e],
                                       [project |-> p,
                                        time_slot |-> projects[p].time_slot])
       /\ ret'.call = "add_assignment" =>
              LET e == ret'.value[1]
                  p == ret'.value[2]
              IN  /\ Busy(e, p) => ret'.raised = "ValueError"
                  /\ ret'.raised = "ValueError" => UNCHANGED entityVars]_vars

\* A refused assign_employee of an employee who is not on the project and
\* holds a missing skill of it, the project not being full: the employee is
\* busy in the project's slot.
RejectionChangesNothingWitness ==
    /\ ret # <<>>
    /\ ret.call = "assign_employee"
    /\ ret.raised = "ValueError"
    /\ LET p == ret.value[1]
           e == ret.value[2]
       IN  /\ e \notin Range(assigned_employees[p])
           /\ Len(assigned_employees[p]) < TeamSize
           /\ \E skill \in Range(get_missing_skills(p)) : has_skill(e, skill)
           /\ Len(assignments[e]) > 0

\* C22: constructing a Project whose required_skills has not exactly 5
\* entries, or has the same skill twice, raises and leaves no project; every
\* project of the Schedule requires 5 pairwise distinct skills.
ConstructionValidated ==
    /\ \A t \in DOMAIN calls :
           LET rs == calls[t].required_skills
               bad == \/ Len(rs) < 5
                      \/ Len(rs) > 5
                      \/ \E i, j \in 1..Len(rs) : i < j /\ rs[i] = rs[j]
           IN  (calls[t].pc # "start" /\ bad) =>
                   /\ calls[t].pc = "raised"
                   /\ ret = Returned("Project", "ValueError", <<>>)
                   /\ projects = <<>>
    /\ \A p \in ProjIds :
           /\ Len(projects[p].required_skills) = 5
           /\ \A i, j \in 1..5 :
                  i # j => projects[p].required_skills[i] # projects[p].required_skills[j]

\* The constructor raised for a list of 5 skills one of which comes twice.
ConstructionValidatedWitness ==
    \E t \in DOMAIN calls :
        /\ calls[t].pc = "raised"
        /\ Len(calls[t].required_skills) = 5
        /\ Cardinality(Range(calls[t].required_skills)) = 4
        /\ projects = <<>>

\* C23: the greedy run leaves a missing skill only after it committed an
\* employee for it or when no candidate for it could be committed: after a
\* rejected commit the next-best candidate of the same skill is tried.
NextBestCandidateTried ==
    [][(pc = "skill" /\ pc' = "skill" /\ si' = si + 1) =>
           \/ Len(assigned_employees'[CurrentProject])
                  = Len(assigned_employees[CurrentProject]) + 1
           \/ \A e \in Range(Available) : Refused(CurrentProject, e)]_vars

\* For each required skill of each project an employee holds that skill and
\* no other.
DedicatedStaff ==
    \A p \in ProjIds : \A skill \in Range(projects[p].required_skills) :
        \E e \in EmpIds : employees[e].skills = {skill}

NobodyAway == \A e \in EmpIds : employees[e].unavailable_slots = {}

\* C28: one pending project, nothing assigned before, nobody away, and for
\* each required skill an employee who holds exactly that skill: the greedy
\* run ends with the project fully staffed (scheduled_projects = 1 and no
\* failed project), whoever else is on the Schedule and whatever the draws.
DedicatedStaffSuffices ==
    (/\ pc = "done"
     /\ mode = "initial"
     /\ Len(projects) = 1
     /\ DedicatedStaff
     /\ NobodyAway) =>
        /\ results.scheduled_projects = 1
        /\ results.failed_projects = <<>>
        /\ \A p \in ProjIds : Len(assigned_employees[p]) = 5

\* The weighted score of employee e for project p, without the noise, in
\* ticks: 1000 hours less the total hours if the workload is balanced, and
\* 100 times what is left of the day's 8 hours if overtime is minimized.
ClaimedWeight(e, p) ==
    LET day == Date(projects[p].time_slot.start)
        sameDay == {i \in 1..Len(assignments[e]) :
                       Date(assignments[e][i].time_slot.start) = day}
        committed == SumOver(sameDay,
                         [i \in sameDay |-> duration_hours(assignments[e][i].time_slot)])
        left == H(8) - committed
    IN  (IF options.balance_workload THEN H(1000) - TotalHours(e) ELSE 0)
        + (IF options.minimize_overtime
           THEN 100 * (IF left > 0 THEN left ELSE 0) ELSE 0)

\* C24: the noise decides among equal weighted scores only: the employee a
\* step commits has a weighted score that no candidate of the skill exceeds,
\* whatever the draws and also when the hours differ by half an hour.
NoiseOnlyBreaksTies ==
    [][(/\ pc = "skill"
        /\ Len(assigned_employees'[CurrentProject])
               = Len(assigned_employees[CurrentProject]) + 1) =>
           LET p == CurrentProject
               e == assigned_employees'[p][Len(assigned_employees'[p])]
           IN  \A c \in Range(Available) : ClaimedWeight(c, p) <= ClaimedWeight(e, p)]_vars

\* C25: the draws and the re-seeding of other requests do not change a run:
\* the greedy run on the Schedule generated again from the same seed, in the
\* same order, leaves the assignments of the first run and returns what it
\* returned.
RunOwnsGenerator ==
    (/\ pc = "done"
     /\ mode = "regenerated"
     /\ strategy = "greedy"
     /\ first # <<>>) =>
        /\ assigned_employees = first.assigned_employees
        /\ assignments = first.assignments
        /\ results = first.results

\* C26: the availability check and the commit are one atomic unit per
\* employee: of two interleaved assign_employee calls for the same employee
\* and two projects whose slots overlap at most one succeeds, and the
\* employee never holds two assignments whose slots overlap.
CheckAndCommitAtomic ==
    /\ \A t, u \in DOMAIN calls :
           (/\ t # u
            /\ calls[t].employee = calls[u].employee
            /\ Intersect(projects[calls[t].project].time_slot,
                         projects[calls[u].project].time_slot)) =>
               ~(calls[t].pc = "done" /\ calls[u].pc = "done")
    /\ \A e \in EmpIds : \A i, j \in 1..Len(assignments[e]) :
           i # j => ~Intersect(assignments[e][i].time_slot, assignments[e][j].time_slot)

\* The positions in e's assignments of the Assignments whose project is p.
AssignmentsFor(e, p) ==
    {i \in 1..Len(assignments[e]) : assignments[e][i].project = p}

\* C27: employee e is among project p's assigned_employees if and only if
\* e's assignments hold exactly one Assignment for p (and never more than
\* one); that Assignment has p's time slot; and the employees hold as many
\* assignments in all as the projects have assignees.
TwoSidedConsistency ==
    /\ \A e \in EmpIds, p \in ProjIds :
           /\ (\E i \in 1..Len(assigned_employees[p]) : assigned_employees[p][i] = e)
                  <=> Cardinality(AssignmentsFor(e, p)) = 1
           /\ Cardinality(AssignmentsFor(e, p)) <= 1
           /\ Cardinality({i \in 1..Len(assigned_employees[p]) :
                              assigned_employees[p][i] = e}) <= 1
    /\ \A e \in EmpIds : \A i \in 1..Len(assignments[e]) :
           /\ assignments[e][i].project \in ProjIds
           /\ assignments[e][i].time_slot = projects[assignments[e][i].project].time_slot
    /\ SumOver(EmpIds, [e \in EmpIds |-> Len(assignments[e])])
           = SumOver(ProjIds, [p \in ProjIds |-> Len(assigned_employees[p])])

\* A finished run after which an employee is on two projects.
TwoSidedConsistencyWitness ==
    /\ pc = "done"
    /\ \E e \in EmpIds :
           /\ Len(assignments[e]) = 2
           /\ \A p \in ProjIds : e \in Range(assigned_employees[p])

\* C29: for every employee the costs of the assignments add up to the cost
\* of the employee's hour totals, and over the Schedule to its total cost.
AssignmentCostsAddUp ==
    /\ \A e \in EmpIds :
           SumSeq([i \in 1..Len(assignments[e]) |-> get_cost10(e, i)])
               = employee_total_cost10(e)
    /\ SumOver(EmpIds, [e \in EmpIds |->
           SumSeq([i \in 1..Len(assignments[e]) |-> get_cost10(e, i)])])
           = get_total_cost10

\* C30: a second greedy run on the Schedule the first run left commits
\* nothing: assignments, hours and statuses stay as the first run left them,
\* and the run reports the same scheduled_projects count and the same failed
\* projects with the same missing skills.
RerunIdempotent ==
    mode = "rerun" =>
        /\ assignments = first.assignments
        /\ assigned_employees = first.assigned_employees
        /\ regular_hours_worked = first.regular_hours_worked
        /\ overtime_hours_worked = first.overtime_hours_worked
        /\ status = first.status
        /\ pc = "done" =>
               /\ results.scheduled_projects = first.results.scheduled_projects
               /\ results.failed_projects = first.results.failed_projects

=============================================================================
